---- MODULE Spec2Model ----
(***************************************************************************)
(* dmitigr::que: the container adapters Fifo_array<T, N> (fifo_array.hpp)  *)
(* and Basic_fifo_string<CharT> (fifo_string.hpp).                         *)
(*                                                                         *)
(* An adapter object is a record of its data members.  Each object of a    *)
(* program is of one of the two classes: fa maps the Fifo_array objects    *)
(* to their state, fs the Basic_fifo_string objects.                       *)
(*                                                                         *)
(* The variables built .. scn are history variables about object 1,        *)
(* written by the specifications SpecFifo and SpecUnpop only: they record  *)
(* what the calls were, never what the code did with them.                 *)
(***************************************************************************)
EXTENDS Integers, Sequences, FiniteSets

VARIABLES fa, fs, built, pushed, pops, absq, ok, sized, scn

vars == <<fa, fs, built, pushed, pops, absq, ok, sized, scn>>
hist == <<built, pushed, pops, absq, ok, sized, scn>>

(***************************************************************************)
(* Bounds.                                                                 *)
(***************************************************************************)
\* The template parameter N of Fifo_array<T, N>: the capacity.
N == 3
\* The longest std::basic_string the model lets a Basic_fifo_string hold.
MaxLen == 3
\* The width of size_type (std::size_t), in bits.
SizeBits == 16

Modulus == 2 ^ SizeBits
\* value_type of the Fifo_array objects, and of the Basic_fifo_string ones.
Elems == {1, 2}
Chars == {"a", "b", "c"}
\* The objects of a program with two adapters, and the one of a program with one.
Pair == {1, 2}
One == {1}

Strings == UNION {[1..k -> Chars] : k \in 0..MaxLen}

(***************************************************************************)
(* Arithmetic of size_type, and std::min.                                  *)
(***************************************************************************)
SizeT(x) == x % Modulus

Min(a, b) == IF b < a THEN b ELSE a

(***************************************************************************)
(* Fifo_array<T, N>: [data_, pop_offset_, push_offset_], data_ indexed     *)
(* from 0 as std::array is.                                                *)
(***************************************************************************)
FaBack(a) == a.data_[a.push_offset_ - 1]

\* front that reads the first slot of the array.
FaFrontOfStorage(a) == a.data_[0]

FaFront(a) == a.data_[a.pop_offset_]

FaPushBack(a, value) ==
    [a EXCEPT !.data_[a.push_offset_] = value,
              !.push_offset_ = SizeT(a.push_offset_ + 1)]

\* pop_front that gives the buffer back once the last live element is popped.
FaPopFrontReclaim(a) ==
    LET b == [a EXCEPT !.pop_offset_ = Min(SizeT(a.pop_offset_ + 1), N)]
    IN  IF b.pop_offset_ = b.push_offset_
        THEN [b EXCEPT !.pop_offset_ = 0, !.push_offset_ = 0]
        ELSE b

\* pop_front without the clamp.
FaPopFrontUnclamped(a) == [a EXCEPT !.pop_offset_ = SizeT(a.pop_offset_ + 1)]

\* pop_front that clamps to the live end.
FaPopFrontToLiveEnd(a) ==
    [a EXCEPT !.pop_offset_ = Min(SizeT(a.pop_offset_ + 1), a.push_offset_)]

FaPopFront(a) == [a EXCEPT !.pop_offset_ = Min(SizeT(a.pop_offset_ + 1), N)]

\* unpop_front without the test for zero.
FaUnpopFrontUnchecked(a) == [a EXCEPT !.pop_offset_ = SizeT(a.pop_offset_ - 1)]

\* unpop_front that rewinds to the first element.
FaUnpopFrontRewind(a) == [a EXCEPT !.pop_offset_ = 0]

FaUnpopFront(a) ==
    IF a.pop_offset_ # 0 THEN [a EXCEPT !.pop_offset_ = a.pop_offset_ - 1] ELSE a

FaUnpopAll(a) == [a EXCEPT !.pop_offset_ = 0]

FaSize(a) == SizeT(a.push_offset_ - a.pop_offset_)

FaEmpty(a) == FaSize(a) = 0

\* clear that resets pop_offset_ alone.
FaClearPopOnly(a) == [a EXCEPT !.pop_offset_ = 0]

\* clear that resets push_offset_ alone.
FaClearPushOnly(a) == [a EXCEPT !.push_offset_ = 0]

FaClear(a) == [a EXCEPT !.pop_offset_ = 0, !.push_offset_ = 0]

(***************************************************************************)
(* Basic_fifo_string<CharT>: [data_, offset_], data_ a sequence, so that   *)
(* the character at C++ index k is data_[k + 1].                           *)
(***************************************************************************)
FsSize(s) == SizeT(Len(s.data_) - s.offset_)

\* data that points at the beginning of the buffer.
FsDataOfStorage(s) == 0

\* data() is the pointer data_.data() + offset_: the index it points at.
FsData(s) == s.offset_

\* basic_string_view{data(), size()}: size() characters from index data().
FsView(s) == [k \in 1..FsSize(s) |-> s.data_[FsData(s) + k]]

FsBack(s) == s.data_[Len(s.data_)]

FsFront(s) == s.data_[s.offset_ + 1]

FsPushBack(s, value) == [s EXCEPT !.data_ = Append(s.data_, value)]

\* pop_front without the clamp.
FsPopFrontUnclamped(s) == [s EXCEPT !.offset_ = SizeT(s.offset_ + 1)]

FsPopFront(s) == [s EXCEPT !.offset_ = Min(SizeT(s.offset_ + 1), Len(s.data_))]

FsUnpopFront(s) ==
    IF s.offset_ # 0 THEN [s EXCEPT !.offset_ = s.offset_ - 1] ELSE s

\* unpop_all that steps back by one.
FsUnpopAllByOne(s) == [s EXCEPT !.offset_ = IF s.offset_ # 0 THEN s.offset_ - 1 ELSE 0]

FsUnpopAll(s) == [s EXCEPT !.offset_ = 0]

FsEmpty(s) == FsSize(s) = 0

\* clear that resets offset_ and leaves data_ alone.
FsClearOffsetOnly(s) == [s EXCEPT !.offset_ = 0]

FsClear(s) == [s EXCEPT !.data_ = <<>>, !.offset_ = 0]

(***************************************************************************)
(* Construction.  Fifo_array() leaves data_ default-initialized (any       *)
(* values) and the offsets zero.  Basic_fifo_string(args...) forwards its  *)
(* arguments to std::basic_string, so data_ is any string, offset_ zero.   *)
(***************************************************************************)
FaNew == {[data_ |-> d, pop_offset_ |-> 0, push_offset_ |-> 0] :
            d \in [0..(N - 1) -> Elems]}

FsNew == {[data_ |-> d, offset_ |-> 0] : d \in Strings}

\* The content object 1 was constructed with.
Built == IF 1 \in DOMAIN fs THEN fs[1].data_ ELSE <<>>

InitHist ==
    /\ built = Built
    /\ pushed = <<>>
    /\ pops = 0
    /\ absq = Built
    /\ ok = TRUE
    /\ sized = TRUE
    /\ scn = IF 1 \in DOMAIN fs /\ fs[1].data_ = <<>> THEN 0 ELSE -1

\* The objects O, each constructed as a Fifo_array or as a Basic_fifo_string.
Objects(O) ==
    \E A \in SUBSET O : fa \in [A -> FaNew] /\ fs \in [O \ A -> FsNew]

\* Spec keeps no history.
NoHist ==
    /\ built = <<>>
    /\ pushed = <<>>
    /\ pops = 0
    /\ absq = <<>>
    /\ ok = TRUE
    /\ sized = TRUE
    /\ scn = -1

Init == Objects(Pair) /\ NoHist

(***************************************************************************)
(* The member functions that change an object, called on object i.         *)
(* push_back past the capacity N of a Fifo_array is undefined behaviour    *)
(* (data_[N]): the callers modelled never do it.  MaxLen bounds the        *)
(* Basic_fifo_string.                                                      *)
(***************************************************************************)
ArrayPushBack(i, value) ==
    /\ i \in DOMAIN fa
    /\ fa[i].push_offset_ < N
    /\ fa' = [fa EXCEPT ![i] = FaPushBack(fa[i], value)]
    /\ UNCHANGED fs

StringPushBack(i, value) ==
    /\ i \in DOMAIN fs
    /\ Len(fs[i].data_) < MaxLen
    /\ fs' = [fs EXCEPT ![i] = FsPushBack(fs[i], value)]
    /\ UNCHANGED fa

PopFront(i) ==
    \/ i \in DOMAIN fa /\ fa' = [fa EXCEPT ![i] = FaPopFront(fa[i])] /\ UNCHANGED fs
    \/ i \in DOMAIN fs /\ fs' = [fs EXCEPT ![i] = FsPopFront(fs[i])] /\ UNCHANGED fa

UnpopFront(i) ==
    \/ i \in DOMAIN fa /\ fa' = [fa EXCEPT ![i] = FaUnpopFront(fa[i])] /\ UNCHANGED fs
    \/ i \in DOMAIN fs /\ fs' = [fs EXCEPT ![i] = FsUnpopFront(fs[i])] /\ UNCHANGED fa

UnpopAll(i) ==
    \/ i \in DOMAIN fa /\ fa' = [fa EXCEPT ![i] = FaUnpopAll(fa[i])] /\ UNCHANGED fs
    \/ i \in DOMAIN fs /\ fs' = [fs EXCEPT ![i] = FsUnpopAll(fs[i])] /\ UNCHANGED fa

Clear(i) ==
    \/ i \in DOMAIN fa /\ fa' = [fa EXCEPT ![i] = FaClear(fa[i])] /\ UNCHANGED fs
    \/ i \in DOMAIN fs /\ fs' = [fs EXCEPT ![i] = FsClear(fs[i])] /\ UNCHANGED fa

\* swap that exchanges data_ and pop_offset_ and leaves push_offset_.
FaSwapNoPush(f, i, j) ==
    [f EXCEPT ![i] = [f[j] EXCEPT !.push_offset_ = f[i].push_offset_],
              ![j] = [f[i] EXCEPT !.push_offset_ = f[j].push_offset_]]

\* swap(i, j): std::swap of every data member.
FaSwap(f, i, j) == [f EXCEPT ![i] = f[j], ![j] = f[i]]

FsSwap(f, i, j) == [f EXCEPT ![i] = f[j], ![j] = f[i]]

Swap(i, j) ==
    \/ {i, j} \subseteq DOMAIN fa /\ fa' = FaSwap(fa, i, j) /\ UNCHANGED fs
    \/ {i, j} \subseteq DOMAIN fs /\ fs' = FsSwap(fs, i, j) /\ UNCHANGED fa

(***************************************************************************)
(* Spec: two adapters, every member function called in any order on        *)
(* either, and swap on two of the same class.                              *)
(***************************************************************************)
Next ==
    \/ \E i \in Pair, value \in Elems : ArrayPushBack(i, value) /\ UNCHANGED hist
    \/ \E i \in Pair, value \in Chars : StringPushBack(i, value) /\ UNCHANGED hist
    \/ \E i \in Pair : PopFront(i) /\ UNCHANGED hist
    \/ \E i \in Pair : UnpopFront(i) /\ UNCHANGED hist
    \/ \E i \in Pair : UnpopAll(i) /\ UNCHANGED hist
    \/ \E i \in Pair : Clear(i) /\ UNCHANGED hist
    \/ \E i \in Pair, j \in Pair : Swap(i, j) /\ UNCHANGED hist

Spec == Init /\ [][Next]_vars

(***************************************************************************)
(* Live: the pop cursor is strictly below the live end.                    *)
(***************************************************************************)
FaLive(a) == a.pop_offset_ < a.push_offset_

FsLive(s) == s.offset_ < Len(s.data_)

\* data() is the pointer data_.data() + pop_offset_: the index it points at.
FaData(a) == a.pop_offset_

\* The size() elements read from data() on.
FaView(a) == [k \in 1..FaSize(a) |-> a.data_[FaData(a) + k - 1]]

(***************************************************************************)
(* SpecFifo: one adapter used as a queue: push_back, pop_front (in any     *)
(* state) and clear.  The history of object 1:                             *)
(*   built   the content it was constructed with, until the first clear(); *)
(*   pushed  the values passed to push_back since the last clear();        *)
(*   pops    the pop_front calls since the last clear() that were made     *)
(*           with a live element;                                          *)
(*   absq    the abstract FIFO sequence: push_back appends, pop_front      *)
(*           drops the head, clear() empties;                              *)
(*   ok      no pop_front was called on an empty adapter since the last    *)
(*           clear().                                                      *)
(***************************************************************************)
Live1 == IF 1 \in DOMAIN fa THEN FaLive(fa[1]) ELSE FsLive(fs[1])

Empty1 == IF 1 \in DOMAIN fa THEN FaEmpty(fa[1]) ELSE FsEmpty(fs[1])

Size1 == IF 1 \in DOMAIN fa THEN FaSize(fa[1]) ELSE FsSize(fs[1])

Front1 == IF 1 \in DOMAIN fa THEN FaFront(fa[1]) ELSE FsFront(fs[1])

Back1 == IF 1 \in DOMAIN fa THEN FaBack(fa[1]) ELSE FsBack(fs[1])

InitFifo == Objects(One) /\ InitHist

QueuePushed(value) ==
    /\ pushed' = Append(pushed, value)
    /\ absq' = Append(absq, value)
    /\ UNCHANGED <<built, pops, ok, sized, scn>>

QueuePush ==
    \/ \E value \in Elems : ArrayPushBack(1, value) /\ QueuePushed(value)
    \/ \E value \in Chars : StringPushBack(1, value) /\ QueuePushed(value)

QueuePop ==
    /\ PopFront(1)
    /\ pops' = IF Live1 THEN pops + 1 ELSE pops
    /\ absq' = IF absq # <<>> THEN Tail(absq) ELSE absq
    /\ ok' = (ok /\ ~Empty1)
    /\ UNCHANGED <<built, pushed, sized, scn>>

QueueClear ==
    /\ Clear(1)
    /\ built' = <<>>
    /\ pushed' = <<>>
    /\ pops' = 0
    /\ absq' = <<>>
    /\ ok' = TRUE
    /\ UNCHANGED <<sized, scn>>

NextFifo == QueuePush \/ QueuePop \/ QueueClear

SpecFifo == InitFifo /\ [][NextFifo]_vars

(***************************************************************************)
(* SpecUnpop: one adapter under every member function that changes it:     *)
(* push_back, pop_front (in any state), unpop_front, unpop_all and clear.  *)
(* The history of object 1: built and pushed as above, and                 *)
(*   sized   every push_back so far was made while size() < N              *)
(*           (Fifo_array);                                                 *)
(*   scn     how many calls of Script the last calls on the                *)
(*           Basic_fifo_string were, counted from an empty adapter; -1     *)
(*           when they were not the beginning of Script.                   *)
(***************************************************************************)
Script ==
    << <<"push_back", "a">>, <<"push_back", "b">>, <<"push_back", "c">>,
       <<"pop_front", "">>, <<"pop_front", "">>, <<"unpop_all", "">>,
       <<"clear", "">> >>

Scripted(call) ==
    LET pos == IF 1 \in DOMAIN fs /\ fs[1] = [data_ |-> <<>>, offset_ |-> 0]
               THEN 0 ELSE scn
    IN  scn' = IF /\ 1 \in DOMAIN fs
                  /\ pos >= 0
                  /\ pos < Len(Script)
                  /\ Script[pos + 1] = call
               THEN pos + 1
               ELSE -1

InitUnpop == Objects(One) /\ InitHist

UnpopPush ==
    \/ \E value \in Elems :
          /\ ArrayPushBack(1, value)
          /\ pushed' = Append(pushed, value)
          /\ sized' = (sized /\ FaSize(fa[1]) < N)
          /\ UNCHANGED <<built, pops, absq, ok, scn>>
    \/ \E value \in Chars :
          /\ StringPushBack(1, value)
          /\ pushed' = Append(pushed, value)
          /\ Scripted(<<"push_back", value>>)
          /\ UNCHANGED <<built, pops, absq, ok, sized>>

UnpopPop ==
    /\ PopFront(1)
    /\ Scripted(<<"pop_front", "">>)
    /\ UNCHANGED <<built, pushed, pops, absq, ok, sized>>

UnpopUnpopFront ==
    /\ UnpopFront(1)
    /\ Scripted(<<"unpop_front", "">>)
    /\ UNCHANGED <<built, pushed, pops, absq, ok, sized>>

UnpopUnpopAll ==
    /\ UnpopAll(1)
    /\ Scripted(<<"unpop_all", "">>)
    /\ UNCHANGED <<built, pushed, pops, absq, ok, sized>>

UnpopClear ==
    /\ Clear(1)
    /\ built' = <<>>
    /\ pushed' = <<>>
    /\ Scripted(<<"clear", "">>)
    /\ UNCHANGED <<pops, absq, ok, sized>>

NextUnpop ==
    UnpopPush \/ UnpopPop \/ UnpopUnpopFront \/ UnpopUnpopAll \/ UnpopClear

SpecUnpop == InitUnpop /\ [][NextUnpop]_vars

(***************************************************************************)
(* C2 (as claimed): in every reachable state of a Fifo_array,              *)
(* 0 <= pop_offset <= push_offset <= N.                                    *)
(***************************************************************************)
C2_CursorsOrdered ==
    \A i \in DOMAIN fa :
        /\ 0 <= fa[i].pop_offset_
        /\ fa[i].pop_offset_ <= fa[i].push_offset_
        /\ fa[i].push_offset_ <= N

(***************************************************************************)
(* C3: in every reachable state of a Basic_fifo_string,                    *)
(* 0 <= offset <= length(storage), and size() is length(storage) - offset  *)
(* as an integer: the subtraction in size_type does not wrap.              *)
(***************************************************************************)
C3_OffsetWithinLength ==
    \A i \in DOMAIN fs :
        /\ 0 <= fs[i].offset_
        /\ fs[i].offset_ <= Len(fs[i].data_)
        /\ FsSize(fs[i]) = Len(fs[i].data_) - fs[i].offset_

\* A string popped to its end, where one more pop_front meets the clamp.
C3_Witness ==
    \E i \in DOMAIN fs :
        /\ Len(fs[i].data_) = MaxLen
        /\ fs[i].offset_ = Len(fs[i].data_)
        /\ FsPopFront(fs[i]) = fs[i]

(***************************************************************************)
(* C6: round trip.  In every reachable state with a live element,          *)
(* pop_front() followed at once by unpop_front() restores size() and       *)
(* front(), and leaves the cursors and the storage as they were.           *)
(***************************************************************************)
C6_PopUnpopRoundTrip ==
    /\ \A i \in DOMAIN fa :
          FaLive(fa[i]) =>
              LET b == FaUnpopFront(FaPopFront(fa[i]))
              IN  /\ FaSize(b) = FaSize(fa[i])
                  /\ FaFront(b) = FaFront(fa[i])
                  /\ b = fa[i]
    /\ \A i \in DOMAIN fs :
          FsLive(fs[i]) =>
              LET t == FsUnpopFront(FsPopFront(fs[i]))
              IN  /\ FsSize(t) = FsSize(fs[i])
                  /\ FsFront(t) = FsFront(fs[i])
                  /\ t = fs[i]

\* One adapter of each class, both with an element popped earlier and two
\* live ones of different values, so that the pop changes size() and front().
C6_Witness ==
    /\ \E i \in DOMAIN fa :
          /\ fa[i].pop_offset_ = 1 /\ fa[i].push_offset_ = 3
          /\ FaSize(FaPopFront(fa[i])) = FaSize(fa[i]) - 1
          /\ FaFront(FaPopFront(fa[i])) # FaFront(fa[i])
    /\ \E i \in DOMAIN fs :
          /\ fs[i].offset_ = 1 /\ Len(fs[i].data_) = 3
          /\ FsSize(FsPopFront(fs[i])) = FsSize(fs[i]) - 1
          /\ FsFront(FsPopFront(fs[i])) # FsFront(fs[i])

(***************************************************************************)
(* C9: frame.  In every reachable state pop_front, unpop_front and         *)
(* unpop_all leave the stored values and the live end (push_offset, the    *)
(* buffer length) as they are; push_back moves the live end up and leaves  *)
(* the values below it; swap hands the two objects' states to each other   *)
(* whole; so only clear() lowers a live end or drops a consumed prefix.    *)
(***************************************************************************)
C9_OnlyReadCursorMoves ==
    /\ \A i \in DOMAIN fa :
          /\ \A b \in {FaPopFront(fa[i]), FaUnpopFront(fa[i]), FaUnpopAll(fa[i])} :
                /\ b.data_ = fa[i].data_
                /\ b.push_offset_ = fa[i].push_offset_
          /\ fa[i].push_offset_ < N =>
                \A value \in Elems :
                    LET b == FaPushBack(fa[i], value)
                    IN  /\ b.push_offset_ > fa[i].push_offset_
                        /\ b.pop_offset_ = fa[i].pop_offset_
                        /\ \A k \in 0..(fa[i].push_offset_ - 1) :
                              b.data_[k] = fa[i].data_[k]
    /\ \A i \in DOMAIN fs :
          /\ \A t \in {FsPopFront(fs[i]), FsUnpopFront(fs[i]), FsUnpopAll(fs[i])} :
                t.data_ = fs[i].data_
          /\ \A value \in Chars :
                LET t == FsPushBack(fs[i], value)
                IN  /\ Len(t.data_) > Len(fs[i].data_)
                    /\ t.offset_ = fs[i].offset_
                    /\ SubSeq(t.data_, 1, Len(fs[i].data_)) = fs[i].data_
    /\ \A i \in DOMAIN fa, j \in DOMAIN fa :
          {FaSwap(fa, i, j)[i], FaSwap(fa, i, j)[j]} = {fa[i], fa[j]}
    /\ \A i \in DOMAIN fs, j \in DOMAIN fs :
          {FsSwap(fs, i, j)[i], FsSwap(fs, i, j)[j]} = {fs[i], fs[j]}

\* One adapter of each class whose last live element is about to be popped,
\* with a consumed prefix before it.
C9_Witness ==
    /\ \E i \in DOMAIN fa :
          /\ fa[i].pop_offset_ = 1 /\ fa[i].push_offset_ = 2
          /\ FaPopFront(fa[i]) # fa[i]
          /\ FaUnpopFront(fa[i]) # fa[i]
          /\ FaUnpopAll(fa[i]) # fa[i]
    /\ \E i \in DOMAIN fs :
          /\ fs[i].offset_ = 1 /\ Len(fs[i].data_) = 2
          /\ FsPopFront(fs[i]) # fs[i]
          /\ FsUnpopFront(fs[i]) # fs[i]
          /\ FsUnpopAll(fs[i]) # fs[i]

(***************************************************************************)
(* C10: clear() in any reachable state leaves every cursor zero, size()    *)
(* zero and empty() true; the Fifo_array keeps its element values, the     *)
(* Basic_fifo_string has length zero; and unpop_front and unpop_all leave  *)
(* the cleared adapter as it is, so that size() stays zero under them.     *)
(***************************************************************************)
C10_ClearEmpties ==
    /\ \A i \in DOMAIN fa :
          LET c == FaClear(fa[i])
          IN  /\ c.pop_offset_ = 0 /\ c.push_offset_ = 0
              /\ FaSize(c) = 0 /\ FaEmpty(c)
              /\ c.data_ = fa[i].data_
              /\ FaUnpopFront(c) = c /\ FaUnpopAll(c) = c
              /\ FaSize(FaUnpopFront(c)) = 0 /\ FaSize(FaUnpopAll(c)) = 0
    /\ \A i \in DOMAIN fs :
          LET c == FsClear(fs[i])
          IN  /\ c.offset_ = 0 /\ Len(c.data_) = 0
              /\ FsSize(c) = 0 /\ FsEmpty(c)
              /\ FsUnpopFront(c) = c /\ FsUnpopAll(c) = c
              /\ FsSize(FsUnpopFront(c)) = 0 /\ FsSize(FsUnpopAll(c)) = 0

\* One adapter of each class holding pushed elements, some of them popped,
\* when clear() is called.
C10_Witness ==
    /\ \E i \in DOMAIN fa :
          /\ fa[i].pop_offset_ = 2 /\ fa[i].push_offset_ = 3
          /\ FaClear(fa[i]) # fa[i]
    /\ \E i \in DOMAIN fs :
          /\ fs[i].offset_ = 2 /\ Len(fs[i].data_) = 3
          /\ FsClear(fs[i]) # fs[i]

(***************************************************************************)
(* C1: under push_back and pop_front on a non-empty adapter, from          *)
(* construction or clear(), the adapter is the abstract FIFO sequence:     *)
(* size() is its length, empty() holds exactly when it is empty, and when  *)
(* it is not, front() is its head and back() its last element.             *)
(***************************************************************************)
C1_RefinesFifo ==
    ok =>
        /\ Size1 = Len(absq)
        /\ Empty1 <=> (absq = <<>>)
        /\ absq # <<>> =>
              /\ Front1 = Head(absq)
              /\ Back1 = absq[Len(absq)]

\* Two values pushed and the first popped: head and last element differ from
\* the first value stored.
C1_Witness ==
    /\ ok
    /\ Len(pushed) >= 2
    /\ pops = 1
    /\ Len(absq) = Len(built) + Len(pushed) - 1
    /\ Front1 = Head(absq)
    /\ 1 \in DOMAIN fa
    /\ FaFront(fa[1]) # fa[1].data_[0]

\* The same, for a Basic_fifo_string.
C1_WitnessString ==
    /\ ok
    /\ Len(pushed) >= 2
    /\ pops = 1
    /\ 1 \in DOMAIN fs
    /\ FsFront(fs[1]) = Head(absq)
    /\ FsFront(fs[1]) # fs[1].data_[1]

(***************************************************************************)
(* C4 (as claimed, for the Fifo_array): after push_back, pop_front (in any *)
(* state) and clear, size() is the number of push_back calls since the     *)
(* last clear() minus the number of pop_front calls since then that were   *)
(* made with a live element.                                               *)
(***************************************************************************)
C4_SizeIsPushesMinusPops ==
    \A i \in DOMAIN fa : FaSize(fa[i]) = Len(pushed) - pops

(***************************************************************************)
(* C5 (as claimed): in every state of a Fifo_array reached by pushes each  *)
(* made while size() < N, size() < N implies push_offset < N.              *)
(***************************************************************************)
C5_SizeBelowNGivesRoom ==
    sized => \A i \in DOMAIN fa : FaSize(fa[i]) < N => fa[i].push_offset_ < N

(***************************************************************************)
(* C5 (amended): in every state of a Fifo_array reached by pushes within   *)
(* the capacity, push_offset is the number of push_back calls since the    *)
(* last clear(), and size() < N implies push_offset < N when nothing is    *)
(* popped (pop_offset = 0).                                                *)
(***************************************************************************)
C5_PushCountGivesRoom ==
    \A i \in DOMAIN fa :
        /\ fa[i].push_offset_ = Len(pushed)
        /\ (fa[i].pop_offset_ = 0 /\ FaSize(fa[i]) < N) => fa[i].push_offset_ < N
        /\ Len(pushed) < N => fa[i].push_offset_ < N

\* A full array after a clear() and N more pushes, nothing popped.
C5_Witness ==
    /\ 1 \in DOMAIN fa
    /\ fa[1].push_offset_ = N
    /\ fa[1].pop_offset_ = 0
    /\ FaSize(fa[1]) = N
    /\ Len(pushed) = N

(***************************************************************************)
(* C7 (as claimed): unpop_all() after any push_back, pop_front and         *)
(* unpop_front makes size() the number of push_back calls since the last   *)
(* clear() or since construction, and the live elements the values pushed  *)
(* since then, in push order.                                              *)
(***************************************************************************)
C7_UnpopAllRestoresPushed ==
    /\ \A i \in DOMAIN fa :
          /\ FaSize(FaUnpopAll(fa[i])) = Len(pushed)
          /\ FaView(FaUnpopAll(fa[i])) = pushed
    /\ \A i \in DOMAIN fs :
          /\ FsSize(FsUnpopAll(fs[i])) = Len(pushed)
          /\ FsView(FsUnpopAll(fs[i])) = pushed

(***************************************************************************)
(* C7 (amended): unpop_all() after any push_back, pop_front and            *)
(* unpop_front makes size() the number of elements the adapter was         *)
(* constructed with, if it was not cleared since, plus the number of       *)
(* push_back calls since the last clear() or since construction; the live  *)
(* elements are then those values, in that order.                          *)
(***************************************************************************)
C7_UnpopAllRestoresAll ==
    /\ \A i \in DOMAIN fa :
          /\ FaSize(FaUnpopAll(fa[i])) = Len(built) + Len(pushed)
          /\ FaView(FaUnpopAll(fa[i])) = built \o pushed
    /\ \A i \in DOMAIN fs :
          /\ FsSize(FsUnpopAll(fs[i])) = Len(built) + Len(pushed)
          /\ FsView(FsUnpopAll(fs[i])) = built \o pushed

\* A Basic_fifo_string constructed with content, pushed to, and popped to its
\* end.
C7_Witness ==
    /\ 1 \in DOMAIN fs
    /\ built # <<>>
    /\ pushed # <<>>
    /\ fs[1].offset_ = Len(fs[1].data_)
    /\ FsSize(fs[1]) = 0
    /\ FsUnpopAll(fs[1]) # fs[1]

\* A Fifo_array with two values pushed and three pop_front calls.
C7_WitnessArray ==
    /\ 1 \in DOMAIN fa
    /\ Len(pushed) = 2
    /\ fa[1].pop_offset_ = 3
    /\ FaUnpopAll(fa[1]) # fa[1]

(***************************************************************************)
(* C8 (as claimed): a Basic_fifo_string, from empty: after push 'a', 'b',  *)
(* 'c' view() is "abc"; after two pop_front then, view() is "c" and size() *)
(* is 2; after unpop_all then, view() is "abc" and size() is 3; after      *)
(* clear then, size() is 0 and view() is "".                               *)
(***************************************************************************)
C8_ScenarioAsWritten ==
    \A i \in DOMAIN fs :
        /\ scn = 3 => FsView(fs[i]) = <<"a", "b", "c">>
        /\ scn = 5 => FsView(fs[i]) = <<"c">> /\ FsSize(fs[i]) = 2
        /\ scn = 6 => FsView(fs[i]) = <<"a", "b", "c">> /\ FsSize(fs[i]) = 3
        /\ scn = 7 => FsSize(fs[i]) = 0 /\ FsView(fs[i]) = <<>>

(***************************************************************************)
(* C8 (amended): the same, with size() 1 after the two pop_front calls.    *)
(***************************************************************************)
C8_Scenario ==
    \A i \in DOMAIN fs :
        /\ scn = 3 => FsView(fs[i]) = <<"a", "b", "c">>
        /\ scn = 5 => FsView(fs[i]) = <<"c">> /\ FsSize(fs[i]) = 1
        /\ scn = 6 => FsView(fs[i]) = <<"a", "b", "c">> /\ FsSize(fs[i]) = 3
        /\ scn = 7 => FsSize(fs[i]) = 0 /\ FsView(fs[i]) = <<>>

\* The scenario run to its end.
C8_Witness == scn = 7 /\ 1 \in DOMAIN fs /\ fs[1] = [data_ |-> <<>>, offset_ |-> 0]

\* The scenario after its two pop_front calls.
C8_WitnessPopped == scn = 5 /\ 1 \in DOMAIN fs /\ fs[1].offset_ = 2

(***************************************************************************)
(* C11: swap exchanges the whole state of two adapters of one class:       *)
(* after a.swap(b), a has the storage and cursors b had, hence its size(), *)
(* its front() and back() (when it holds a live element) and its live      *)
(* contents, and b has a's; a second swap restores both.                   *)
(***************************************************************************)
C11_SwapExchanges ==
    /\ \A i \in DOMAIN fa, j \in DOMAIN fa :
          LET g == FaSwap(fa, i, j)
          IN  /\ g[i] = fa[j] /\ g[j] = fa[i]
              /\ FaSize(g[i]) = FaSize(fa[j]) /\ FaSize(g[j]) = FaSize(fa[i])
              /\ FaLive(fa[j]) =>
                    /\ FaFront(g[i]) = FaFront(fa[j])
                    /\ FaBack(g[i]) = FaBack(fa[j])
                    /\ FaView(g[i]) = FaView(fa[j])
              /\ FaLive(fa[i]) =>
                    /\ FaFront(g[j]) = FaFront(fa[i])
                    /\ FaBack(g[j]) = FaBack(fa[i])
                    /\ FaView(g[j]) = FaView(fa[i])
              /\ FaSwap(g, i, j) = fa
    /\ \A i \in DOMAIN fs, j \in DOMAIN fs :
          LET g == FsSwap(fs, i, j)
          IN  /\ g[i] = fs[j] /\ g[j] = fs[i]
              /\ FsSize(g[i]) = FsSize(fs[j]) /\ FsSize(g[j]) = FsSize(fs[i])
              /\ FsLive(fs[j]) =>
                    /\ FsFront(g[i]) = FsFront(fs[j])
                    /\ FsBack(g[i]) = FsBack(fs[j])
              /\ FsLive(fs[i]) =>
                    /\ FsFront(g[j]) = FsFront(fs[i])
                    /\ FsBack(g[j]) = FsBack(fs[i])
              /\ FsView(g[i]) = FsView(fs[j]) /\ FsView(g[j]) = FsView(fs[i])
              /\ FsSwap(g, i, j) = fs

\* Two Fifo_arrays with live elements that differ in size(), front() and
\* back(), one of them with a popped element.
C11_Witness ==
    /\ DOMAIN fa = Pair
    /\ FaLive(fa[1]) /\ FaLive(fa[2])
    /\ fa[1].pop_offset_ = 1
    /\ FaSize(fa[1]) # FaSize(fa[2])
    /\ FaFront(fa[1]) # FaFront(fa[2])
    /\ FaBack(fa[1]) # FaBack(fa[2])
    /\ FaSwap(fa, 1, 2) # fa

\* The same, for two Basic_fifo_strings.
C11_WitnessString ==
    /\ DOMAIN fs = Pair
    /\ FsLive(fs[1]) /\ FsLive(fs[2])
    /\ fs[1].offset_ = 1
    /\ FsSize(fs[1]) # FsSize(fs[2])
    /\ FsFront(fs[1]) # FsFront(fs[2])
    /\ FsBack(fs[1]) # FsBack(fs[2])
    /\ FsSwap(fs, 1, 2) # fs

(***************************************************************************)
(* C12: however often pop_front is called, the read cursor does not pass   *)
(* the buffer's allocated bound: pop_offset <= N in a Fifo_array,          *)
(* offset <= length(storage) in a Basic_fifo_string.                       *)
(***************************************************************************)
C12_CursorWithinBuffer ==
    /\ \A i \in DOMAIN fa :
          /\ fa[i].pop_offset_ <= N
          /\ FaPopFront(fa[i]).pop_offset_ <= N
    /\ \A i \in DOMAIN fs :
          /\ fs[i].offset_ <= Len(fs[i].data_)
          /\ FsPopFront(fs[i]).offset_ <= Len(fs[i].data_)

\* A Fifo_array popped N times with fewer than N elements pushed, and a
\* Basic_fifo_string popped to its end: one more pop_front moves neither.
C12_Witness ==
    /\ \E i \in DOMAIN fa :
          /\ fa[i].pop_offset_ = N
          /\ fa[i].push_offset_ = 1
          /\ FaPopFront(fa[i]) = fa[i]
    /\ \E i \in DOMAIN fs :
          /\ fs[i].offset_ = 1
          /\ Len(fs[i].data_) = 1
          /\ FsPopFront(fs[i]) = fs[i]

(***************************************************************************)
(* C13: pop_front on an empty Fifo_array (pop_offset = push_offset) with   *)
(* pop_offset < N advances pop_offset by one, past push_offset; size() is  *)
(* then push_offset - pop_offset modulo 2^w, which is not zero, and        *)
(* empty() is false.  So it is in every reachable state with the pop       *)
(* cursor above push_offset.                                               *)
(***************************************************************************)
C13_PopOnEmptyWraps ==
    \A i \in DOMAIN fa :
        /\ (fa[i].pop_offset_ = fa[i].push_offset_ /\ fa[i].pop_offset_ < N) =>
              LET b == FaPopFront(fa[i])
              IN  /\ b.pop_offset_ = fa[i].pop_offset_ + 1
                  /\ b.pop_offset_ > b.push_offset_
                  /\ FaSize(b) = Modulus - 1
                  /\ FaSize(b) # 0
                  /\ ~FaEmpty(b)
        /\ fa[i].pop_offset_ > fa[i].push_offset_ =>
              /\ FaSize(fa[i]) = Modulus - (fa[i].pop_offset_ - fa[i].push_offset_)
              /\ FaSize(fa[i]) # 0
              /\ ~FaEmpty(fa[i])

\* A Fifo_array with one element pushed and two pop_front calls made: the
\* second was made on the empty adapter.
C13_Witness ==
    \E i \in DOMAIN fa :
        /\ fa[i].push_offset_ = 1
        /\ fa[i].pop_offset_ = 2
        /\ FaSize(fa[i]) = Modulus - 1
        /\ FaUnpopFront(fa[i]).pop_offset_ = fa[i].push_offset_

(***************************************************************************)
(* C14: pop_front on an empty Basic_fifo_string (offset =                  *)
(* length(storage)) changes nothing: offset, the buffer and its length     *)
(* stay, size() stays 0 and empty() stays true.                            *)
(***************************************************************************)
C14_PopOnEmptyStringNoOp ==
    \A i \in DOMAIN fs :
        fs[i].offset_ = Len(fs[i].data_) =>
            LET t == FsPopFront(fs[i])
            IN  /\ t.offset_ = fs[i].offset_
                /\ t.data_ = fs[i].data_
                /\ Len(t.data_) = Len(fs[i].data_)
                /\ t = fs[i]
                /\ FsSize(fs[i]) = 0 /\ FsEmpty(fs[i])
                /\ FsSize(t) = 0 /\ FsEmpty(t)

\* A Basic_fifo_string of two characters, both popped.
C14_Witness ==
    \E i \in DOMAIN fs :
        /\ Len(fs[i].data_) = 2
        /\ fs[i].offset_ = 2
        /\ FsEmpty(fs[i])
        /\ FsEmpty(FsPopFront(fs[i]))

(***************************************************************************)
(* C15: unpop_front lowers the read cursor by exactly one when it is not   *)
(* zero and changes nothing when it is zero: the cursor does not wrap      *)
(* below zero, and nothing but the cursor changes.                         *)
(***************************************************************************)
C15_UnpopFrontByOne ==
    /\ \A i \in DOMAIN fa :
          LET b == FaUnpopFront(fa[i])
          IN  /\ fa[i].pop_offset_ # 0 => b.pop_offset_ = fa[i].pop_offset_ - 1
              /\ fa[i].pop_offset_ = 0 => b = fa[i]
              /\ 0 <= b.pop_offset_ /\ b.pop_offset_ <= fa[i].pop_offset_
              /\ b.data_ = fa[i].data_ /\ b.push_offset_ = fa[i].push_offset_
    /\ \A i \in DOMAIN fs :
          LET t == FsUnpopFront(fs[i])
          IN  /\ fs[i].offset_ # 0 => t.offset_ = fs[i].offset_ - 1
              /\ fs[i].offset_ = 0 => t = fs[i]
              /\ 0 <= t.offset_ /\ t.offset_ <= fs[i].offset_
              /\ t.data_ = fs[i].data_

\* A Fifo_array with a zero cursor and elements pushed, where unpop_front
\* changes nothing, and a Basic_fifo_string with two characters popped,
\* where it steps back to the second.
C15_Witness ==
    /\ \E i \in DOMAIN fa :
          /\ fa[i].pop_offset_ = 0
          /\ fa[i].push_offset_ = 2
          /\ FaUnpopFront(fa[i]) = fa[i]
    /\ \E i \in DOMAIN fs :
          /\ fs[i].offset_ = 2
          /\ FsUnpopFront(fs[i]).offset_ = 1

\* The other way round: the Fifo_array steps back, the string stays.
C15_WitnessOther ==
    /\ \E i \in DOMAIN fa :
          /\ fa[i].pop_offset_ = 2
          /\ FaUnpopFront(fa[i]).pop_offset_ = 1
    /\ \E i \in DOMAIN fs :
          /\ fs[i].offset_ = 0
          /\ Len(fs[i].data_) = 2
          /\ FsUnpopFront(fs[i]) = fs[i]

(***************************************************************************)
(* C16: in every reachable state of a Basic_fifo_string, view() is the     *)
(* buffer's subsequence at the indices [offset, length(storage)), its      *)
(* length is size(), and when it is not empty its first element is front() *)
(* and its last element back().                                            *)
(***************************************************************************)
C16_ViewIsLiveRegion ==
    \A i \in DOMAIN fs :
        /\ Len(FsView(fs[i])) = FsSize(fs[i])
        /\ FsView(fs[i]) = SubSeq(fs[i].data_, fs[i].offset_ + 1, Len(fs[i].data_))
        /\ FsView(fs[i]) # <<>> =>
              /\ FsView(fs[i])[1] = FsFront(fs[i])
              /\ FsView(fs[i])[Len(FsView(fs[i]))] = FsBack(fs[i])

\* A Basic_fifo_string with one character popped and two different ones left.
C16_Witness ==
    \E i \in DOMAIN fs :
        /\ fs[i].offset_ = 1
        /\ Len(fs[i].data_) = 3
        /\ Len(FsView(fs[i])) = 2
        /\ FsView(fs[i])[1] # fs[i].data_[1]
        /\ FsView(fs[i])[1] # FsView(fs[i])[2]

(***************************************************************************)
(* The C++ indices front() and back() read.                                *)
(***************************************************************************)
FaFrontAt(a) == a.pop_offset_

FaBackAt(a) == a.push_offset_ - 1

FsFrontAt(s) == s.offset_

FsBackAt(s) == Len(s.data_) - 1

(***************************************************************************)
(* C17 (as claimed): in every reachable state in which empty() is false,   *)
(* front() reads an index that is at least 0 and below the live end        *)
(* (push_offset, the buffer length), and back() reads an index at or above *)
(* the read cursor.                                                        *)
(***************************************************************************)
C17_FrontBackAreLive ==
    /\ \A i \in DOMAIN fa :
          ~FaEmpty(fa[i]) =>
              /\ 0 <= FaFrontAt(fa[i])
              /\ FaFrontAt(fa[i]) < fa[i].push_offset_
              /\ FaBackAt(fa[i]) >= fa[i].pop_offset_
    /\ \A i \in DOMAIN fs :
          ~FsEmpty(fs[i]) =>
              /\ 0 <= FsFrontAt(fs[i])
              /\ FsFrontAt(fs[i]) < Len(fs[i].data_)
              /\ FsBackAt(fs[i]) >= fs[i].offset_

\* The part of C17 about Basic_fifo_string, which holds.
C17_StringFrontBackAreLive ==
    \A i \in DOMAIN fs :
        ~FsEmpty(fs[i]) =>
            /\ 0 <= FsFrontAt(fs[i])
            /\ FsFrontAt(fs[i]) < Len(fs[i].data_)
            /\ FsBackAt(fs[i]) >= fs[i].offset_

(***************************************************************************)
(* k calls of pop_front in a row.                                          *)
(***************************************************************************)
RECURSIVE FaPops(_, _)
FaPops(a, k) == IF k = 0 THEN a ELSE FaPops(FaPopFront(a), k - 1)

RECURSIVE FsPops(_, _)
FsPops(s, k) == IF k = 0 THEN s ELSE FsPops(FsPopFront(s), k - 1)

(***************************************************************************)
(* C18 (as claimed): from every reachable state, under pop_front calls     *)
(* alone, empty() is true after at most N calls (Fifo_array), at most      *)
(* length(storage) calls (Basic_fifo_string), and stays true under every   *)
(* further call.  The cursor has stopped moving after N, respectively      *)
(* length(storage), calls, so that many further calls show all of them.    *)
(***************************************************************************)
C18_DrainsAndStaysEmpty ==
    /\ \A i \in DOMAIN fa :
          \E k \in 0..N :
              \A m \in k..(k + N + 1) : FaEmpty(FaPops(fa[i], m))
    /\ \A i \in DOMAIN fs :
          \E k \in 0..Len(fs[i].data_) :
              \A m \in k..(k + Len(fs[i].data_) + 1) : FsEmpty(FsPops(fs[i], m))

\* The part of C18 about Basic_fifo_string, which holds.
C18_StringDrainsAndStaysEmpty ==
    \A i \in DOMAIN fs :
        \E k \in 0..Len(fs[i].data_) :
            \A m \in k..(k + Len(fs[i].data_) + 1) : FsEmpty(FsPops(fs[i], m))

====
